---- MODULE Spec2Model ----
(***************************************************************************)
(* Model of pkg/services/searchV2/http.go: the dashboard-search proxy      *)
(* (doQuery) and the organization-invite handlers (GetPendingOrgInvites,   *)
(* AddOrgInvite, RevokeInvite, GetInviteInfoByCode, CompleteInvite).       *)
(*                                                                         *)
(* Every invite handler runs in a request slot (a member of Procs) that    *)
(* serves one signed-in caller.  A handler is cut into one action per call *)
(* to a collaborator that holds state (user store, temp-user store, org    *)
(* store, mail, bus, session), so two requests interleave exactly at those *)
(* calls.  Checks a handler makes on its own request data belong to the    *)
(* action of the store call that follows them.  A field of the request     *)
(* body enters req when the handler first reads it.                        *)
(*                                                                         *)
(* The stores are not part of this file.  They are modelled by what the    *)
(* specification says of them: codes, logins, emails and (user, org)       *)
(* pairs are unique, and UpdateTempUserStatus fails for an unknown code    *)
(* and for an invite that is completed or revoked.  An error of a          *)
(* collaborator that the handler does not recognise is an input of the     *)
(* step, as is every collaborator answer that the modelled store does not  *)
(* determine.                                                              *)
(*                                                                         *)
(* loc.steps, loc.failed, loc.before, loc.afterOk, ok200, createdVia and   *)
(* joinedVia are history: they record what a request did and saw and are   *)
(* read by no handler.                                                     *)
(***************************************************************************)
EXTENDS Integers, Sequences, FiniteSets, TLC

\* ---------------------------------------------------------------- bounds
MaxReqs == 2
MaxQueries == 3
MaxFrames == 2

\* ------------------------------------------------------- small input sets
Procs == {1, 2}
Codes == {"c1", "c2"}
Strings == {"amy@x.io", "bob"}
DisplayNames == {"Amy"}
Reasons == {"initial-indexing-ongoing", "org-indexing-ongoing"}
Bodies == {"", "{", "{}", "{\"query\":\"a\"}"}
Frames == {"A", "B", "Bad"}

\* ----------------------------------------------------- program constants
TmpUserInvitePending == "InvitePending"
TmpUserCompleted == "Completed"
TmpUserRevoked == "Revoked"
ROLE_VIEWER == "Viewer"
ROLE_EDITOR == "Editor"
ROLE_ADMIN == "Admin"
ValidRoles == {ROLE_VIEWER, ROLE_EDITOR, ROLE_ADMIN}
RoleInputs == ValidRoles \cup {"Bogus"}

\* ------------------------------------------------------------ collaborators
\* models.RoleType.IsValid
IsValid(role) == role \in ValidRoles

RoleRank(role) ==
  CASE role = ROLE_VIEWER -> 1
    [] role = ROLE_EDITOR -> 2
    [] role = ROLE_ADMIN -> 3
    [] OTHER -> 4

\* models.RoleType.Includes: the role is at least as high as other
Includes(role, other) == IsValid(role) /\ RoleRank(role) >= RoleRank(other)

\* util.IsEmail
IsEmail(s) == s \in {"amy@x.io"}

NoInvite ==
  [status |-> "none", org |-> 0, role |-> "", email |-> "", name |-> "",
   by |-> 0, sent |-> FALSE]

NoUser == [id |-> 0, login |-> "", email |-> ""]

\* tempUserService.GetTempUserByCode: the record, or ErrTempUserNotFound
GetTempUserByCode(inv, code) ==
  IF inv[code] = NoInvite
    THEN [err |-> "ErrTempUserNotFound", result |-> NoInvite]
    ELSE [err |-> "nil", result |-> inv[code]]

UpdateTempUserStatus_force(inv, code, status) ==
  IF inv[code] = NoInvite
    THEN [err |-> "error", invites |-> inv]
    ELSE [err |-> "nil", invites |-> [inv EXCEPT ![code].status = status]]

\* tempUserService.UpdateTempUserStatus: moves a pending invite to status,
\* fails for an unknown code and for an invite in a terminal status
UpdateTempUserStatus(inv, code, status) ==
  IF inv[code] # NoInvite /\ inv[code].status = TmpUserInvitePending
    THEN [err |-> "nil", invites |-> [inv EXCEPT ![code].status = status]]
    ELSE [err |-> "error", invites |-> inv]

\* tempUserService.CreateTempUser: codes are unique in the store
CreateTempUser(inv, code, rec) ==
  IF inv[code] = NoInvite
    THEN [err |-> "nil", invites |-> [inv EXCEPT ![code] = rec]]
    ELSE [err |-> "error", invites |-> inv]

\* tempUserService.UpdateTempUserWithEmailSent
UpdateTempUserWithEmailSent(inv, code) ==
  IF inv[code] = NoInvite
    THEN [err |-> "error", invites |-> inv]
    ELSE [err |-> "nil", invites |-> [inv EXCEPT ![code].sent = TRUE]]

\* userService.GetByLogin: match on login or on email
GetByLogin(us, loginOrEmail) ==
  LET found == {u \in us : u.login = loginOrEmail \/ u.email = loginOrEmail}
  IN IF found = {}
       THEN [err |-> "ErrUserNotFound", usr |-> NoUser]
       ELSE [err |-> "nil", usr |-> CHOOSE u \in found : TRUE]

\* Login.CreateUser: login and email are unique, ids are handed out in order
CreateUser(us, nid, email, login) ==
  IF \E u \in us : u.login = login \/ u.email = email
    THEN [err |-> "ErrUserAlreadyExists", usr |-> NoUser, users |-> us]
    ELSE LET u == [id |-> nid, login |-> login, email |-> email]
         IN [err |-> "nil", usr |-> u, users |-> us \cup {u}]

\* SQLStore.AddOrgUser: one membership per (user, org)
AddOrgUser(ms, org, uid, role) ==
  IF \E m \in ms : m.user = uid /\ m.org = org
    THEN [err |-> "ErrOrgUserAlreadyAdded", members |-> ms]
    ELSE [err |-> "nil",
          members |-> ms \cup {[user |-> uid, org |-> org, role |-> role]}]

\* util.GetRandomString(30): codes are interchangeable tokens, the generated
\* one is a code that no invite in the store carries
GetRandomString(inv) == CHOOSE c \in DOMAIN inv : inv[c] = NoInvite

\* tempUserService.GetTempUsersQuery: the codes of an org's invites in a status
GetTempUsersQuery(inv, org, status) ==
  {c \in DOMAIN inv : inv[c] # NoInvite /\ inv[c].org = org /\ inv[c].status = status}

\* SQLStore.SetUsingOrg
SetUsingOrg(act, org, uid) == [u \in DOMAIN act |-> IF u = uid THEN org ELSE act[u]]

\* ------------------------------------------------------------------ state
VARIABLES
  invites,      \* temp_user table: code -> invite record
  users,        \* user table
  nextId,       \* next user id of the user table
  members,      \* org_user table
  activeOrg,    \* user id -> the org the user is using
  sessions,     \* user ids with a login session
  events,       \* SignUpCompleted events published on the bus
  emails,       \* emails handed to the notification service
  signups,      \* metrics MApiUserSignUpCompleted / MApiUserSignUpInvite
  disableLoginForm, \* setting.DisableLoginForm
  pc,           \* request slot -> position in its handler
  req,          \* request slot -> request data
  loc,          \* request slot -> locals of the handler
  resp,         \* request slot -> response
  nreq,         \* requests started so far
  notServed,    \* dashboardSearchNotServedRequestsCounter, by reason
  forwarded,    \* calls of search.doDashboardQuery
  qcall,        \* the last doQuery call: its inputs and its response
  nquery,       \* doQuery calls so far
  ok200,        \* history: code -> CompleteInvite requests answered 200
  createdVia,   \* history: code -> users created by CompleteInvite with it
  joinedVia     \* history: code -> memberships added by CompleteInvite with it

storeVars == <<invites, users, nextId, members, activeOrg, sessions, events,
               emails, signups, disableLoginForm>>
reqVars == <<pc, req, loc, resp, nreq>>
searchVars == <<notServed, forwarded, qcall, nquery>>
histVars == <<ok200, createdVia, joinedVia>>
vars == <<invites, users, nextId, members, activeOrg, sessions, events,
          emails, signups, disableLoginForm, pc, req, loc, resp, nreq,
          notServed, forwarded, qcall, nquery, ok200, createdVia, joinedVia>>

\* what a sign-up form submits: the email and the username of the new account
Creds == {[email |-> "amy@x.io", login |-> "amy"],
          [email |-> "bob@x.io", login |-> "bob"]}

UserIds == 1..(Cardinality(Creds) + 1)

\* c *models.ReqContext of the signed-in caller a request slot serves
Caller(p) ==
  IF p = 1
    THEN [userId |-> 7, org |-> 1, orgRole |-> ROLE_EDITOR, admin |-> FALSE]
    ELSE [userId |-> 8, org |-> 2, orgRole |-> ROLE_VIEWER, admin |-> TRUE]

NoReq ==
  [op |-> "none", code |-> "", email |-> "", login |-> "", userId |-> 0,
   org |-> 0, orgRole |-> "", admin |-> FALSE, role |-> "", loe |-> "",
   name |-> "", send |-> FALSE, bad |-> FALSE]

NoInfo == [email |-> "", name |-> "", username |-> "", invitedBy |-> 0]

NoLoc ==
  [invite |-> NoInvite, usr |-> NoUser, steps |-> <<>>, lookup |-> "none",
   info |-> NoInfo, list |-> {}, failed |-> "none", before |-> NoInvite,
   afterOk |-> FALSE, access |-> "none", added |-> "none", mail |-> "none"]

NoResp == [status |-> 0, msg |-> ""]

NoBytes == <<>>

NoCall ==
  [ready |-> TRUE, reason |-> "", body |-> "", status |-> 0, bytes |-> NoBytes,
   sent |-> FALSE, engineErr |-> FALSE, frames |-> <<>>]

FirstInvite ==
  [status |-> TmpUserInvitePending, org |-> 1, role |-> ROLE_EDITOR,
   email |-> "bob", name |-> "Amy", by |-> 7, sent |-> FALSE]

Error(status, msg) == [status |-> status, msg |-> msg]
Success(msg) == [status |-> 200, msg |-> msg]

\* The stores start empty or hold what earlier requests left there: a user,
\* and a pending invite that a caller of org 1 created for "bob"
Init ==
  /\ invites \in {[c \in Codes |-> NoInvite],
                  [c \in Codes |-> IF c = "c1" THEN FirstInvite ELSE NoInvite]}
  /\ \E pre \in BOOLEAN :
       /\ users = IF pre THEN {[id |-> 1, login |-> "amy", email |-> "amy@x.io"]}
                         ELSE {}
       /\ nextId = IF pre THEN 2 ELSE 1
  /\ members = {}
  /\ activeOrg = [u \in UserIds |-> 0]
  /\ sessions = {}
  /\ events = {}
  /\ emails = {}
  /\ signups = 0
  /\ disableLoginForm \in BOOLEAN
  /\ pc = [p \in Procs |-> "idle"]
  /\ req = [p \in Procs |-> NoReq]
  /\ loc = [p \in Procs |-> NoLoc]
  /\ resp = [p \in Procs |-> NoResp]
  /\ nreq = 0
  /\ notServed = [r \in Reasons |-> 0]
  /\ forwarded = 0
  /\ qcall = NoCall
  /\ nquery = 0
  /\ ok200 = [c \in Codes |-> 0]
  /\ createdVia = [c \in Codes |-> {}]
  /\ joinedVia = [c \in Codes |-> {}]

\* a handler returns: the slot holds the response until the client takes it
Finish(p, r, l) ==
  /\ pc' = [pc EXCEPT ![p] = "done"]
  /\ resp' = [resp EXCEPT ![p] = r]
  /\ loc' = [loc EXCEPT ![p] = l]

Goto(p, label, l) ==
  /\ pc' = [pc EXCEPT ![p] = label]
  /\ loc' = [loc EXCEPT ![p] = l]
  /\ UNCHANGED resp

Begin(p, r) ==
  /\ pc[p] = "idle"
  /\ nreq < MaxReqs
  /\ nreq' = nreq + 1
  /\ req' = [req EXCEPT ![p] = r]

\* the client takes the response; the slot is free for the next request
Return(p) ==
  /\ pc[p] = "done"
  /\ pc' = [pc EXCEPT ![p] = "idle"]
  /\ req' = [req EXCEPT ![p] = NoReq]
  /\ loc' = [loc EXCEPT ![p] = NoLoc]
  /\ resp' = [resp EXCEPT ![p] = NoResp]
  /\ UNCHANGED <<storeVars, nreq, searchVars, histVars>>

\* ------------------------------------------------------------ RevokeInvite
\* updateTempUserStatus: ok exactly when the store accepted the update
updateTempUserStatus(inv, code, status, fault) ==
  IF fault
    THEN [ok |-> FALSE, invites |-> inv,
          rsp |-> Error(500, "Failed to update invite status")]
    ELSE LET r == UpdateTempUserStatus(inv, code, status)
         IN IF r.err # "nil"
              THEN [ok |-> FALSE, invites |-> inv,
                    rsp |-> Error(500, "Failed to update invite status")]
              ELSE [ok |-> TRUE, invites |-> r.invites, rsp |-> NoResp]

RevokeResponse_always200(ok, rsp) == Success("Invite revoked")

RevokeResponse(ok, rsp) == IF ~ok THEN rsp ELSE Success("Invite revoked")

RevokeInvite(p) ==
  \E code \in Codes, fault \in BOOLEAN :
    LET r == updateTempUserStatus(invites, code, TmpUserRevoked, fault)
    IN /\ Begin(p, [NoReq EXCEPT !.op = "RevokeInvite", !.code = code])
       /\ invites' = r.invites
       /\ Finish(p, RevokeResponse(r.ok, r.rsp),
                 [NoLoc EXCEPT !.before = invites[code],
                               !.failed = IF r.ok THEN "none" ELSE "setStatus"])
       /\ UNCHANGED <<users, nextId, members, activeOrg, sessions, events,
                      emails, signups, disableLoginForm, searchVars, histVars>>

\* ----------------------------------------------------- GetInviteInfoByCode
InfoHidden_onlyRevoked(status) == status = TmpUserRevoked

InfoHidden(status) == status # TmpUserInvitePending

GetInviteInfoByCode(p) ==
  \E code \in Codes, fault \in BOOLEAN :
    LET q == GetTempUserByCode(invites, code)
        inv == q.result
        l == [NoLoc EXCEPT !.before = invites[code],
                           !.lookup = IF fault THEN "error"
                                      ELSE IF q.err = "nil" THEN "found"
                                      ELSE "notfound"]
    IN /\ Begin(p, [NoReq EXCEPT !.op = "GetInviteInfoByCode", !.code = code])
       /\ IF fault
            THEN Finish(p, Error(500, "Failed to get invite"), l)
            ELSE IF q.err = "ErrTempUserNotFound"
              THEN Finish(p, Error(404, "Invite not found"), l)
            ELSE IF InfoHidden(inv.status)
              THEN Finish(p, Error(404, "Invite not found"), l)
            ELSE Finish(p, Success("InviteInfo"),
                        [l EXCEPT !.info = [email |-> inv.email,
                                            name |-> inv.name,
                                            username |-> inv.email,
                                            invitedBy |-> inv.by]])
       /\ UNCHANGED <<storeVars, searchVars, histVars>>

\* --------------------------------------------------------- CompleteInvite
Step(l, name) == [l EXCEPT !.steps = Append(@, name)]

Fail(l, name) == [Step(l, name) EXCEPT !.failed = name]

StepAfter_statusFirst(step) ==
  CASE step = "lookup" -> "createUser"
    [] step = "createUser" -> "publish"
    [] step = "publish" -> "setStatus"
    [] step = "setStatus" -> "addOrgUser"
    [] step = "addOrgUser" -> "setActiveOrg"
    [] step = "setActiveOrg" -> "login"
    [] OTHER -> "done"

\* the order of the calls in CompleteInvite and applyUserInvite
StepAfter(step) ==
  CASE step = "lookup" -> "createUser"
    [] step = "createUser" -> "publish"
    [] step = "publish" -> "addOrgUser"
    [] step = "addOrgUser" -> "setStatus"
    [] step = "setStatus" -> "setActiveOrg"
    [] step = "setActiveOrg" -> "login"
    [] OTHER -> "done"

CannotComplete_onlyRevoked(status) == status = TmpUserRevoked

CannotComplete(status) == status # TmpUserInvitePending

\* web.Bind, then GetTempUserByCode and the status check
CompleteInviteLookup(p) ==
  \E code \in Codes, out \in {"bad", "error", "nil"} :
    LET q == GetTempUserByCode(invites, code)
        l0 == [NoLoc EXCEPT !.before = invites[code],
                            !.afterOk = ok200[code] > 0]
    IN /\ IF out = "bad"
            THEN /\ Begin(p, [NoReq EXCEPT !.op = "CompleteInvite", !.bad = TRUE])
                 /\ Finish(p, Error(400, "bad request data"), NoLoc)
            ELSE /\ Begin(p, [NoReq EXCEPT !.op = "CompleteInvite", !.code = code])
                 /\ IF out = "error"
                      THEN Finish(p, Error(500, "Failed to get invite"),
                                  [Fail(l0, "lookup") EXCEPT !.lookup = "error"])
                      ELSE IF q.err = "ErrTempUserNotFound"
                        THEN Finish(p, Error(404, "Invite not found"),
                                    [Fail(l0, "lookup") EXCEPT !.lookup = "notfound"])
                      ELSE IF CannotComplete(q.result.status)
                        THEN Finish(p, Error(412, "Invite cannot be used in status"),
                                    [Fail(l0, "lookup") EXCEPT !.lookup = "found",
                                                               !.invite = q.result])
                      ELSE Goto(p, StepAfter("lookup"),
                                [Step(l0, "lookup") EXCEPT !.lookup = "found",
                                                           !.invite = q.result])
       /\ UNCHANGED <<storeVars, searchVars, histVars>>

\* Login.CreateUser with the email and the username of the form
CompleteInviteCreateUser(p) ==
  /\ pc[p] = "createUser"
  /\ \E cred \in Creds, fault \in BOOLEAN :
       LET r == CreateUser(users, nextId, cred.email, cred.login)
       IN /\ req' = [req EXCEPT ![p].email = cred.email, ![p].login = cred.login]
          /\ IF fault
               THEN /\ Finish(p, Error(500, "failed to create user"),
                              Fail(loc[p], "createUser"))
                    /\ UNCHANGED <<users, nextId, createdVia>>
               ELSE IF r.err = "ErrUserAlreadyExists"
                 THEN /\ Finish(p, Error(412, "User already exists"),
                                Fail(loc[p], "createUser"))
                      /\ UNCHANGED <<users, nextId, createdVia>>
               ELSE /\ users' = r.users
                    /\ nextId' = nextId + 1
                    /\ createdVia' = [createdVia EXCEPT ![req[p].code] = @ \cup {r.usr.id}]
                    /\ Goto(p, StepAfter("createUser"), [Step(loc[p], "createUser") EXCEPT !.usr = r.usr])
  /\ UNCHANGED <<invites, members, activeOrg, sessions, events, emails,
                 signups, disableLoginForm, nreq, searchVars, ok200, joinedVia>>

\* bus.Publish(SignUpCompleted)
CompleteInvitePublish(p) ==
  /\ pc[p] = "publish"
  /\ \E fault \in BOOLEAN :
       IF fault
         THEN /\ Finish(p, Error(500, "failed to publish event"),
                        Fail(loc[p], "publish"))
              /\ UNCHANGED events
         ELSE /\ events' = events \cup {loc[p].usr.id}
              /\ Goto(p, StepAfter("publish"), Step(loc[p], "publish"))
  /\ UNCHANGED <<invites, users, nextId, members, activeOrg, sessions, emails,
                 signups, disableLoginForm, req, nreq, searchVars, histVars>>

AddOrgUserFatal_strict(err) == err # "nil"

\* applyUserInvite: an AddOrgUser error other than already-added is fatal
AddOrgUserFatal(err) == err # "nil" /\ err # "ErrOrgUserAlreadyAdded"

addOrgUserCmd_admin(invite, usr) ==
  [org |-> invite.org, user |-> usr.id, role |-> ROLE_ADMIN]

\* models.AddOrgUserCommand{OrgId: invite.OrgId, UserId: usr.ID, Role: invite.Role}
addOrgUserCmd(invite, usr) ==
  [org |-> invite.org, user |-> usr.id, role |-> invite.role]

\* applyUserInvite: SQLStore.AddOrgUser with the org and the role of the
\* invite; loc.added keeps what the store answered
CompleteInviteAddOrgUser(p) ==
  /\ pc[p] = "addOrgUser"
  /\ \E fault \in BOOLEAN :
       LET cmd == addOrgUserCmd(loc[p].invite, loc[p].usr)
           r == AddOrgUser(members, cmd.org, cmd.user, cmd.role)
           err == IF fault THEN "error" ELSE r.err
           l == [loc[p] EXCEPT !.added = err]
       IN IF AddOrgUserFatal(err)
            THEN /\ Finish(p, Error(500, "Error while trying to create org user"),
                           Fail(l, "addOrgUser"))
                 /\ UNCHANGED <<members, joinedVia>>
            ELSE /\ members' = IF fault THEN members ELSE r.members
                 /\ joinedVia' = IF err = "nil"
                                   THEN [joinedVia EXCEPT ![req[p].code] = @ \cup {loc[p].usr.id}]
                                   ELSE joinedVia
                 /\ Goto(p, StepAfter("addOrgUser"), Step(l, "addOrgUser"))
  /\ UNCHANGED <<invites, users, nextId, activeOrg, sessions, events, emails,
                 signups, disableLoginForm, req, nreq, searchVars, ok200, createdVia>>

\* applyUserInvite: updateTempUserStatus(invite.Code, TmpUserCompleted)
CompleteInviteSetStatus(p) ==
  /\ pc[p] = "setStatus"
  /\ \E fault \in BOOLEAN :
       LET r == updateTempUserStatus(invites, req[p].code, TmpUserCompleted, fault)
       IN /\ invites' = r.invites
          /\ IF ~r.ok
               THEN Finish(p, r.rsp, Fail(loc[p], "setStatus"))
               ELSE Goto(p, StepAfter("setStatus"), Step(loc[p], "setStatus"))
  /\ UNCHANGED <<users, nextId, members, activeOrg, sessions, events, emails,
                 signups, disableLoginForm, req, nreq, searchVars, histVars>>

setActive_off == FALSE

\* the setActive argument CompleteInvite passes to applyUserInvite
setActive == TRUE

\* applyUserInvite: "if setActive", SQLStore.SetUsingOrg
CompleteInviteSetActiveOrg(p) ==
  /\ pc[p] = "setActiveOrg"
  /\ \E fault \in BOOLEAN :
       IF setActive /\ fault
         THEN /\ Finish(p, Error(500, "Failed to set org as active"),
                        Fail(loc[p], "setActiveOrg"))
              /\ UNCHANGED activeOrg
         ELSE /\ activeOrg' = IF setActive
                                 THEN SetUsingOrg(activeOrg, loc[p].invite.org,
                                                  loc[p].usr.id)
                                 ELSE activeOrg
              /\ Goto(p, StepAfter("setActiveOrg"), Step(loc[p], "setActiveOrg"))
  /\ UNCHANGED <<invites, users, nextId, members, sessions, events, emails,
                 signups, disableLoginForm, req, nreq, searchVars, histVars>>

\* loginUserWithUser, the sign-up metrics and the 200 response
CompleteInviteLogin(p) ==
  /\ pc[p] = "login"
  /\ \E fault \in BOOLEAN :
       IF fault
         THEN /\ Finish(p, Error(500, "failed to accept invite"),
                        Fail(loc[p], "login"))
              /\ UNCHANGED <<sessions, signups, ok200>>
         ELSE /\ sessions' = sessions \cup {loc[p].usr.id}
              /\ signups' = signups + 1
              /\ ok200' = [ok200 EXCEPT ![req[p].code] = @ + 1]
              /\ Finish(p, Success("User created and logged in"),
                        Step(loc[p], "login"))
  /\ UNCHANGED <<invites, users, nextId, members, activeOrg, events, emails,
                 disableLoginForm, req, nreq, searchVars, createdVia, joinedVia>>

\* --------------------------------------------------- GetPendingOrgInvites
PendingQuery_otherOrg(c) == [org |-> 3 - c.org, status |-> TmpUserInvitePending]

\* models.GetTempUsersQuery{OrgId: c.OrgID, Status: TmpUserInvitePending}
PendingQuery(c) == [org |-> c.org, status |-> TmpUserInvitePending]

GetPendingOrgInvites(p) ==
  \E fault \in BOOLEAN :
    LET query == PendingQuery(Caller(p))
    IN /\ Begin(p, [NoReq EXCEPT !.op = "GetPendingOrgInvites",
                                 !.userId = Caller(p).userId,
                                 !.org = Caller(p).org])
       /\ IF fault
            THEN Finish(p, Error(500, "Failed to get invites from db"), NoLoc)
            ELSE Finish(p, Success("invites"),
                        [NoLoc EXCEPT !.list =
                           GetTempUsersQuery(invites, query.org, query.status)])
       /\ UNCHANGED <<storeVars, searchVars, histVars>>

\* ------------------------------------------------------------ AddOrgInvite
ExistingUser_never(err) == FALSE

\* the else branch of "if err != nil" after GetByLogin: a user was found
ExistingUser(err) == err = "nil"

RoleTooHigh_swapped(orgRole, role, admin) == ~Includes(role, orgRole) /\ ~admin

\* the caller may not hand out a role above their own unless Grafana admin
RoleTooHigh(orgRole, role, admin) == ~Includes(orgRole, role) /\ ~admin

LoginDisabled_ignored(flag) == FALSE

\* "if setting.DisableLoginForm": no invite while the login form is disabled
LoginDisabled(flag) == flag

\* web.Bind, the role checks, userService.GetByLogin and, for an unknown
\* login, the DisableLoginForm check and util.GetRandomString
AddOrgInviteLookup(p) ==
  LET c == Caller(p)
      ctx == [NoReq EXCEPT !.op = "AddOrgInvite", !.userId = c.userId,
                           !.org = c.org, !.orgRole = c.orgRole, !.admin = c.admin]
  IN /\ \/ /\ Begin(p, [ctx EXCEPT !.bad = TRUE])
           /\ Finish(p, Error(400, "bad request data"), NoLoc)
        \/ \E role \in RoleInputs :
             /\ ~IsValid(role)
             /\ Begin(p, [ctx EXCEPT !.role = role])
             /\ Finish(p, Error(400, "Invalid role specified"), NoLoc)
        \/ \E role \in RoleInputs :
             /\ IsValid(role)
             /\ RoleTooHigh(c.orgRole, role, c.admin)
             /\ Begin(p, [ctx EXCEPT !.role = role])
             /\ Finish(p, Error(403, "Cannot assign a role higher than user's role"),
                       NoLoc)
        \/ \E role \in RoleInputs, loe \in Strings,
              out \in {"error", "ErrRandom", "nil"} :
             LET q == GetByLogin(users, loe)
                 l == [Step(NoLoc, "getByLogin") EXCEPT
                         !.lookup = IF q.err = "nil" THEN "found" ELSE "notfound",
                         !.usr = q.usr]
             IN /\ IsValid(role)
                /\ ~RoleTooHigh(c.orgRole, role, c.admin)
                /\ Begin(p, [ctx EXCEPT !.role = role, !.loe = loe])
                /\ IF out = "error"
                     THEN Finish(p, Error(500, "Failed to query db for existing user check"),
                                 [Fail(NoLoc, "getByLogin") EXCEPT !.lookup = "error"])
                     ELSE IF ExistingUser(q.err)
                       THEN Goto(p, "evaluate", l)
                     ELSE IF LoginDisabled(disableLoginForm)
                       THEN Finish(p, Error(400, "Cannot invite when login is disabled."), l)
                     ELSE IF out = "ErrRandom"
                       THEN Finish(p, Error(500, "Could not generate random string"), l)
                     ELSE Goto(p, "createTempUser", l)
     /\ UNCHANGED <<storeVars, searchVars, histVars>>

AccessDenied_never(hasAccess) == FALSE

\* "if !hasAccess" after AccessControl.Evaluate returned no error
AccessDenied(hasAccess) == ~hasAccess

\* AccessControl.Evaluate(ActionOrgUsersAdd, users:id:<id>); loc.access keeps
\* what the evaluation answered
AddOrgInviteEvaluate(p) ==
  /\ pc[p] = "evaluate"
  /\ \E out \in {"error", "denied", "granted"} :
       LET l == [loc[p] EXCEPT !.access = out]
       IN IF out = "error"
            THEN Finish(p, Error(500, "Failed to evaluate permissions"),
                        Fail(l, "evaluate"))
            ELSE IF AccessDenied(out = "granted")
              THEN Finish(p, Error(403, "Permission denied"),
                          Fail(l, "evaluate"))
            ELSE Goto(p, "inviteExisting", Step(l, "evaluate"))
  /\ UNCHANGED <<storeVars, req, nreq, searchVars, histVars>>

\* inviteExistingUserToOrg: SQLStore.AddOrgUser, then inviteDto.SendEmail;
\* loc.added keeps what the store answered
AddOrgInviteExisting(p) ==
  /\ pc[p] = "inviteExisting"
  /\ LET r == AddOrgUser(members, req[p].org, loc[p].usr.id, req[p].role)
         l == [loc[p] EXCEPT !.added = r.err]
     IN \/ /\ Finish(p, Error(500, "Error while trying to create org user"),
                     Fail([l EXCEPT !.added = "error"], "addOrgUser"))
           /\ UNCHANGED <<members, req>>
        \/ /\ r.err = "ErrOrgUserAlreadyAdded"
           /\ Finish(p, Error(412, "User is already added to organization"),
                     Fail(l, "addOrgUser"))
           /\ UNCHANGED <<members, req>>
        \/ \E send \in BOOLEAN :
             /\ r.err = "nil"
             /\ members' = r.members
             /\ req' = [req EXCEPT ![p].send = send]
             /\ IF send /\ IsEmail(loc[p].usr.email)
                  THEN Goto(p, "mailExisting", Step(l, "addOrgUser"))
                  ELSE Finish(p, Success("Existing Grafana user added to org"),
                              Step(l, "addOrgUser"))
  /\ UNCHANGED <<invites, users, nextId, activeOrg, sessions, events, emails,
                 signups, disableLoginForm, nreq, searchVars, histVars>>

\* inviteExistingUserToOrg: the invited_to_org email
AddOrgInviteMailExisting(p) ==
  /\ pc[p] = "mailExisting"
  /\ \E fault \in BOOLEAN :
       IF fault
         THEN /\ Finish(p, Error(500, "Failed to send email invited_to_org"),
                        Fail(loc[p], "sendEmail"))
              /\ UNCHANGED emails
         ELSE /\ emails' = emails \cup {[to |-> loc[p].usr.email,
                                         template |-> "invited_to_org",
                                         code |-> ""]}
              /\ Finish(p, Success("Existing Grafana user added to org"),
                        Step(loc[p], "sendEmail"))
  /\ UNCHANGED <<invites, users, nextId, members, activeOrg, sessions, events,
                 signups, disableLoginForm, req, nreq, searchVars, histVars>>

\* tempUserService.CreateTempUser with the command built from the request,
\* then inviteDto.SendEmail.  cmd.Code is the string of GetRandomString
AddOrgInviteCreate(p) ==
  /\ pc[p] = "createTempUser"
  /\ \E c \in Codes : invites[c] = NoInvite
  /\ \E name \in DisplayNames :
       LET code == GetRandomString(invites)
           cmd == [status |-> TmpUserInvitePending, org |-> req[p].org,
                   role |-> req[p].role, email |-> req[p].loe,
                   name |-> name, by |-> req[p].userId, sent |-> FALSE]
           r == CreateTempUser(invites, code, cmd)
           rq == [req[p] EXCEPT !.code = code, !.name = name]
       IN \/ /\ Finish(p, Error(500, "Failed to save invite to database"),
                       Fail(loc[p], "createTempUser"))
             /\ req' = [req EXCEPT ![p] = rq]
             /\ UNCHANGED invites
          \/ \E send \in BOOLEAN :
               /\ r.err = "nil"
               /\ invites' = r.invites
               /\ req' = [req EXCEPT ![p] = [rq EXCEPT !.send = send]]
               /\ IF send /\ IsEmail(req[p].loe)
                    THEN Goto(p, "mailInvite", Step(loc[p], "createTempUser"))
                    ELSE Finish(p, Success("Created invite"),
                                Step(loc[p], "createTempUser"))
  /\ UNCHANGED <<users, nextId, members, activeOrg, sessions, events, emails,
                 signups, disableLoginForm, nreq, searchVars, histVars>>

EmailFailed_never(err) == FALSE

\* "err != nil" after SendEmailCommandHandler
EmailFailed(err) == err # "nil"

\* NotificationService.SendEmailCommandHandler for the new_user_invite email;
\* loc.mail keeps what the service answered, the email is out when it is nil
AddOrgInviteMail(p) ==
  /\ pc[p] = "mailInvite"
  /\ \E out \in {"nil", "ErrSmtpNotEnabled", "error"} :
       LET l == [loc[p] EXCEPT !.mail = out]
       IN IF EmailFailed(out)
            THEN /\ IF out = "ErrSmtpNotEnabled"
                      THEN Finish(p, Error(412, "SMTP not configured"),
                                  Fail(l, "sendEmail"))
                      ELSE Finish(p, Error(500, "Failed to send email invite"),
                                  Fail(l, "sendEmail"))
                 /\ UNCHANGED emails
            ELSE /\ emails' = IF out = "nil"
                                THEN emails \cup {[to |-> req[p].loe,
                                                   template |-> "new_user_invite",
                                                   code |-> req[p].code]}
                                ELSE emails
                 /\ Goto(p, "emailSent", Step(l, "sendEmail"))
  /\ UNCHANGED <<invites, users, nextId, members, activeOrg, sessions, events,
                 signups, disableLoginForm, req, nreq, searchVars, histVars>>

\* tempUserService.UpdateTempUserWithEmailSent
AddOrgInviteEmailSent(p) ==
  /\ pc[p] = "emailSent"
  /\ \E fault \in BOOLEAN :
       LET r == UpdateTempUserWithEmailSent(invites, req[p].code)
       IN IF fault \/ r.err # "nil"
            THEN /\ Finish(p, Error(500, "Failed to update invite with email sent info"),
                           Fail(loc[p], "emailSent"))
                 /\ UNCHANGED invites
            ELSE /\ invites' = r.invites
                 /\ Finish(p, Success("Sent invite"), Step(loc[p], "emailSent"))
  /\ UNCHANGED <<users, nextId, members, activeOrg, sessions, events, emails,
                 signups, disableLoginForm, req, nreq, searchVars, histVars>>

Next ==
  \/ \E p \in Procs : GetPendingOrgInvites(p)
  \/ \E p \in Procs : AddOrgInviteLookup(p)
  \/ \E p \in Procs : AddOrgInviteEvaluate(p)
  \/ \E p \in Procs : AddOrgInviteExisting(p)
  \/ \E p \in Procs : AddOrgInviteMailExisting(p)
  \/ \E p \in Procs : AddOrgInviteCreate(p)
  \/ \E p \in Procs : AddOrgInviteMail(p)
  \/ \E p \in Procs : AddOrgInviteEmailSent(p)
  \/ \E p \in Procs : RevokeInvite(p)
  \/ \E p \in Procs : GetInviteInfoByCode(p)
  \/ \E p \in Procs : CompleteInviteLookup(p)
  \/ \E p \in Procs : CompleteInviteCreateUser(p)
  \/ \E p \in Procs : CompleteInvitePublish(p)
  \/ \E p \in Procs : CompleteInviteAddOrgUser(p)
  \/ \E p \in Procs : CompleteInviteSetStatus(p)
  \/ \E p \in Procs : CompleteInviteSetActiveOrg(p)
  \/ \E p \in Procs : CompleteInviteLogin(p)
  \/ \E p \in Procs : Return(p)

Spec == Init /\ [][Next]_vars

\* ------------------------------------------------------------------ doQuery
\* json.Unmarshal(body, &DashboardQuery{}): an object parses, anything else
\* (no input, a truncated object) is an error
Unmarshal(body) ==
  CASE body = "{}" -> [err |-> FALSE, query |-> ""]
    [] body = "{\"query\":\"a\"}" -> [err |-> FALSE, query |-> "a"]
    [] OTHER -> [err |-> TRUE, query |-> ""]

\* data.Frame.MarshalJSON: the frame "Bad" stands for one that does not encode
MarshalJSON(frame) ==
  IF frame = "Bad"
    THEN [err |-> TRUE, bytes |-> NoBytes]
    ELSE [err |-> FALSE, bytes |-> <<"frame", frame>>]

FrameSeqs == UNION {[1..n -> Frames] : n \in 0..MaxFrames}

InvalidResponse_firstFrame(frames) == Len(frames) = 0

\* len(resp.Frames) != 1
InvalidResponse(frames) == Len(frames) # 1

\* the branch of doQuery taken when IsReady reports not ready
doQueryNotReady(reason, body) ==
  LET m == MarshalJSON("Loading")
  IN /\ notServed' = [notServed EXCEPT ![reason] = @ + 1]
     /\ qcall' = [NoCall EXCEPT !.ready = FALSE, !.reason = reason,
                                !.body = body,
                                !.status = IF m.err THEN 500 ELSE 200,
                                !.bytes = m.bytes]
     /\ UNCHANGED forwarded

NotReadyBranch_forward(ready) == FALSE

NotReadyBranch(ready) == ~ready

doQuery ==
  /\ nquery < MaxQueries
  /\ nquery' = nquery + 1
  /\ \E ready \in BOOLEAN, body \in Bodies :
       IF NotReadyBranch(ready)
         THEN \E reason \in Reasons : doQueryNotReady(reason, body)
         ELSE LET call == [NoCall EXCEPT !.ready = ready, !.body = body]
                  q == Unmarshal(body)
              IN \/ /\ qcall' = [call EXCEPT !.status = 500]  \* io.ReadAll fails
                    /\ UNCHANGED <<notServed, forwarded>>
                 \/ /\ q.err
                    /\ qcall' = [call EXCEPT !.status = 400]
                    /\ UNCHANGED <<notServed, forwarded>>
                 \/ /\ ~q.err
                    /\ forwarded' = forwarded + 1
                    /\ UNCHANGED notServed
                    /\ \E engineErr \in BOOLEAN, frames \in FrameSeqs :
                         LET c2 == [call EXCEPT !.sent = TRUE,
                                                !.engineErr = engineErr,
                                                !.frames = frames]
                         IN IF engineErr
                              THEN qcall' = [c2 EXCEPT !.status = 500]
                              ELSE IF InvalidResponse(frames)
                                THEN qcall' = [c2 EXCEPT !.status = 500]
                              ELSE LET m == MarshalJSON(frames[1])
                                   IN IF m.err
                                        THEN qcall' = [c2 EXCEPT !.status = 500]
                                        ELSE qcall' = [c2 EXCEPT !.status = 200,
                                                                 !.bytes = m.bytes]
  /\ UNCHANGED <<storeVars, reqVars, histVars>>

SearchNext == doQuery

SearchSpec == Init /\ [][SearchNext]_vars
\* =================================================================== claims
Terminal == {TmpUserCompleted, TmpUserRevoked}

IsDone(p, op) == pc[p] = "done" /\ req[p].op = op

\* C1: an invite record is never removed and its status only ever moves from
\* pending to completed or from pending to revoked; a completed or revoked
\* invite keeps its status in every later step, so a RevokeInvite on the code
\* of a completed invite leaves it completed.
C1_StatusOnlyLeavesPending ==
  [][\A c \in Codes :
       invites[c] # NoInvite =>
         /\ invites'[c] # NoInvite
         /\ \/ invites'[c].status = invites[c].status
            \/ /\ invites[c].status = TmpUserInvitePending
               /\ invites'[c].status \in Terminal]_vars

\* a RevokeInvite has answered for an invite that was completed before it
C1_Witness ==
  \E p \in Procs :
    /\ IsDone(p, "RevokeInvite")
    /\ loc[p].before.status = TmpUserCompleted
    /\ invites[req[p].code].status = TmpUserCompleted

\* C2: GetInviteInfoByCode answers 200 only for a pending invite, and then
\* with the email, name, username (the email) and inviter of that invite;
\* when the store answers the lookup, an unknown code and a completed or
\* revoked invite both get 404 and no invite content; a lookup the store
\* fails with another error gets 500 and no content.
C2_InfoOnlyWhilePending ==
  \A p \in Procs :
    IsDone(p, "GetInviteInfoByCode") =>
      LET b == loc[p].before
      IN /\ (resp[p].status = 200) <=>
              (b.status = TmpUserInvitePending /\ loc[p].lookup # "error")
         /\ resp[p].status = 200 =>
              loc[p].info = [email |-> b.email, name |-> b.name,
                             username |-> b.email, invitedBy |-> b.by]
         /\ resp[p].status # 200 => loc[p].info = NoInfo
         /\ (b = NoInvite \/ b.status \in Terminal) /\ loc[p].lookup # "error"
              => resp[p].status = 404
         /\ loc[p].lookup = "error" => resp[p].status = 500

\* the info of a completed invite was asked for and 404 was the answer
C2_Witness ==
  \E p \in Procs :
    /\ IsDone(p, "GetInviteInfoByCode")
    /\ loc[p].before.status = TmpUserCompleted
    /\ resp[p].status = 404

\* C3: a CompleteInvite that answers 200 leaves its invite completed; a
\* CompleteInvite that starts after one with the same code answered 200 never
\* answers 404 or 200, creates no user and runs no step after the lookup, and
\* answers 412 whenever the store answers the lookup.
C3_SecondCompleteIsConflict ==
  \A p \in Procs :
    req[p].op = "CompleteInvite" =>
      /\ (pc[p] = "done" /\ resp[p].status = 200) =>
           /\ invites[req[p].code].status = TmpUserCompleted
           /\ loc[p].before.status = TmpUserInvitePending
      /\ loc[p].afterOk =>
           /\ pc[p] = "done"
           /\ resp[p].status \in {412, 500}
           /\ loc[p].lookup # "error" => resp[p].status = 412
           /\ loc[p].usr = NoUser
           /\ loc[p].steps = <<"lookup">>

\* the second CompleteInvite with a code has answered 412
C3_Witness ==
  \E p \in Procs :
    /\ IsDone(p, "CompleteInvite")
    /\ loc[p].afterOk
    /\ resp[p].status = 412
    /\ ok200[req[p].code] = 1

\* C4: through one invite code at most one user account is created, at most
\* one org membership is added and at most one CompleteInvite answers 200.
C4_OneSignupPerCode ==
  \A c \in Codes :
    /\ Cardinality(createdVia[c]) <= 1
    /\ Cardinality(joinedVia[c]) <= 1
    /\ ok200[c] <= 1

\* C5: an AddOrgInvite whose valid role the caller's org role does not
\* include, from a caller who is no Grafana admin, is over in its first step:
\* it answers 403 and that step changes nothing in the stores (no invite, no
\* membership, no email).
C5_RoleTooHighIsForbidden ==
  [][\A p \in Procs :
       (/\ pc[p] = "idle"
        /\ pc'[p] # "idle"
        /\ req'[p].op = "AddOrgInvite"
        /\ IsValid(req'[p].role)
        /\ ~Includes(req'[p].orgRole, req'[p].role)
        /\ ~req'[p].admin)
       => /\ pc'[p] = "done"
          /\ resp'[p].status = 403
          /\ loc'[p].steps = <<>>
          /\ UNCHANGED storeVars]_vars

\* such a request was refused while a user and an invite were in the stores
C5_Witness ==
  \E p \in Procs :
    /\ IsDone(p, "AddOrgInvite")
    /\ IsValid(req[p].role)
    /\ ~Includes(req[p].orgRole, req[p].role)
    /\ ~req[p].admin
    /\ resp[p].status = 403
    /\ users # {}

\* C6: an AddOrgInvite whose login/email GetByLogin finds a user for never
\* reaches the invite-creating steps and none of its steps changes the invite
\* table; once the role and access-control checks passed, its AddOrgUser step
\* either leaves the membership (user, caller's org, requested role) in the
\* store, or answers 412 because the user was a member already, or answers
\* 500 because the store failed.
C6_ExistingUserGetsMembership ==
  [][\A p \in Procs :
       (/\ req'[p].op = "AddOrgInvite"
        /\ loc'[p].lookup = "found"
        /\ pc'[p] # pc[p])
       => /\ invites' = invites
          /\ pc'[p] \in {"evaluate", "inviteExisting", "mailExisting", "done"}
          /\ req'[p].code = ""
          /\ pc[p] = "inviteExisting" =>
               LET m == [user |-> loc[p].usr.id, org |-> req[p].org,
                         role |-> req[p].role]
                   was == \E x \in members : x.user = m.user /\ x.org = m.org
               IN \/ /\ ~was
                     /\ m \in members'
                     /\ pc'[p] = "mailExisting" \/ resp'[p].status = 200
                  \/ /\ was
                     /\ resp'[p].status = 412
                     /\ members' = members
                  \/ /\ resp'[p].status = 500
                     /\ members' = members]_vars

\* an existing user was added to the caller's org and no invite names them
C6_Witness ==
  \E p \in Procs :
    /\ IsDone(p, "AddOrgInvite")
    /\ loc[p].lookup = "found"
    /\ resp[p].status = 200
    /\ [user |-> loc[p].usr.id, org |-> req[p].org, role |-> req[p].role] \in members
    /\ \A c \in Codes : invites[c].email # req[p].loe

\* C7: RevokeInvite answers an error, never 200, when the code is unknown or
\* its invite is completed or revoked already; it answers 200 only when the
\* invite was pending before the call and is revoked after it.
C7_RevokeFailsUnlessPending ==
  \A p \in Procs :
    IsDone(p, "RevokeInvite") =>
      LET b == loc[p].before
      IN /\ (b = NoInvite \/ b.status \in Terminal) => resp[p].status = 500
         /\ resp[p].status \in {200, 500}
         /\ resp[p].status = 200 =>
              /\ b.status = TmpUserInvitePending
              /\ invites[req[p].code].status = TmpUserRevoked

\* a RevokeInvite on a revoked invite has answered 500
C7_Witness ==
  \E p \in Procs :
    /\ IsDone(p, "RevokeInvite")
    /\ loc[p].before.status = TmpUserRevoked
    /\ resp[p].status = 500
    /\ loc[p].failed = "setStatus"
CompleteOrder ==
  <<"lookup", "createUser", "publish", "addOrgUser", "setStatus",
    "setActiveOrg", "login">>

\* the step ran and did not fail
Succeeded(p, k) ==
  /\ Len(loc[p].steps) >= k
  /\ loc[p].failed # CompleteOrder[k]

\* C8: the steps a CompleteInvite has run are always an initial part of
\* lookup, create user, publish, add membership, set status, set active org,
\* login; a request that answered an error stopped at the step that failed,
\* one that answered 200 ran all seven; what the successful steps wrote (user,
\* event, membership, completed status, active org, session) is in the store
\* whether or not a later step failed, and the event, active org and session
\* of a step that did not run are not.
C8_StepsInOrderNoRollback ==
  \A p \in Procs :
    (req[p].op = "CompleteInvite" /\ ~req[p].bad) =>
      LET n == Len(loc[p].steps)
          u == loc[p].usr
          inv == loc[p].invite
      IN /\ n \in 1..7
         /\ loc[p].steps = SubSeq(CompleteOrder, 1, n)
         /\ pc[p] # "done" => /\ loc[p].failed = "none"
                             /\ n < 7
                             /\ pc[p] = CompleteOrder[n + 1]
         /\ (pc[p] = "done" /\ resp[p].status # 200) =>
              loc[p].failed = CompleteOrder[n]
         /\ (pc[p] = "done" /\ resp[p].status = 200) =>
              (n = 7 /\ loc[p].failed = "none")
         /\ IF Succeeded(p, 2) THEN u \in users /\ u.id # 0 ELSE u = NoUser
         /\ Succeeded(p, 2) =>
              /\ Succeeded(p, 3) <=> u.id \in events
              /\ Succeeded(p, 4) =>
                   \E m \in members : m.user = u.id /\ m.org = inv.org
              /\ Succeeded(p, 5) =>
                   invites[req[p].code].status = TmpUserCompleted
              /\ Succeeded(p, 6) <=> activeOrg[u.id] = inv.org
              /\ Succeeded(p, 7) <=> u.id \in sessions

\* the login failed: the membership is added and the invite completed, but
\* there is no session
C8_Witness ==
  \E p \in Procs :
    /\ IsDone(p, "CompleteInvite")
    /\ loc[p].failed = "login"
    /\ resp[p].status = 500
    /\ \E m \in members : m.user = loc[p].usr.id /\ m.org = loc[p].invite.org
    /\ invites[req[p].code].status = TmpUserCompleted
    /\ loc[p].usr.id \notin sessions

\* publishing failed: the user is created and the invite is still pending
C8_WitnessUserWithoutInvite ==
  \E p \in Procs :
    /\ IsDone(p, "CompleteInvite")
    /\ loc[p].failed = "publish"
    /\ loc[p].usr \in users
    /\ invites[req[p].code].status = TmpUserInvitePending
    /\ \A m \in members : m.user # loc[p].usr.id

\* C9: a doQuery call for which IsReady reports not ready answers 200 with
\* the encoded frame named "Loading" whatever its body is, adds exactly one to
\* the not-served counter of the reported reason and to no other, and does
\* not call the search engine.
C9_NotReadyIsPlaceholder ==
  [][(nquery' # nquery /\ ~qcall'.ready) =>
       /\ qcall'.status = 200
       /\ qcall'.bytes = <<"frame", "Loading">>
       /\ qcall'.reason \in Reasons
       /\ notServed' = [notServed EXCEPT ![qcall'.reason] = @ + 1]
       /\ forwarded' = forwarded
       /\ ~qcall'.sent]_vars

\* a not-ready call with a body that does not parse got the placeholder
C9_Witness ==
  /\ ~qcall.ready
  /\ qcall.body = "{"
  /\ qcall.status = 200
  /\ notServed[qcall.reason] >= 1

\* C10: a doQuery call that reached the search engine answers 200 only if
\* the engine reported no error and returned exactly one frame, and then with
\* that frame encoded; with no frame or more than one it answers 500 and
\* carries no frame.
C10_OneFrameOrError ==
  (qcall.ready /\ qcall.sent) =>
    /\ qcall.status \in {200, 500}
    /\ qcall.status = 200 =>
         /\ ~qcall.engineErr
         /\ Len(qcall.frames) = 1
         /\ qcall.bytes = <<"frame", qcall.frames[1]>>
    /\ Len(qcall.frames) # 1 =>
         /\ qcall.status = 500
         /\ qcall.bytes = NoBytes

\* the engine returned two frames and the answer was 500
C10_Witness ==
  /\ qcall.sent
  /\ ~qcall.engineErr
  /\ Len(qcall.frames) = 2
  /\ qcall.status = 500
  /\ qcall.bytes = NoBytes

\* C11: an AddOrgInvite for an existing user whose access-control evaluation
\* answered "denied" ends in that step with 403, and the step changes nothing
\* in the stores (no membership, no invite, no email); the AddOrgUser call of
\* an AddOrgInvite runs only for a user that GetByLogin found and after the
\* evaluation answered "granted".
C11_DeniedAddsNothing ==
  [][\A p \in Procs :
       (req'[p].op = "AddOrgInvite" /\ pc'[p] # pc[p]) =>
         /\ loc'[p].access = "denied" =>
              /\ pc[p] = "evaluate"
              /\ loc[p].lookup = "found"
              /\ pc'[p] = "done"
              /\ resp'[p].status = 403
              /\ UNCHANGED storeVars
         /\ (pc[p] = "inviteExisting" \/ members' # members) =>
              /\ loc[p].access = "granted"
              /\ loc[p].lookup = "found"]_vars

\* the evaluation was denied for a user in the store: 403, and the user has
\* no membership and got no email
C11_Witness ==
  \E p \in Procs :
    /\ IsDone(p, "AddOrgInvite")
    /\ loc[p].access = "denied"
    /\ resp[p].status = 403
    /\ loc[p].usr \in users
    /\ \A m \in members : m.user # loc[p].usr.id
    /\ emails = {}

OnePerPair(ms) ==
  \A m1 \in ms, m2 \in ms : (m1.user = m2.user /\ m1.org = m2.org) => m1 = m2

\* the CompleteInvite of slot p got already-added from AddOrgUser
Tolerated(p) ==
  /\ req[p].op = "CompleteInvite"
  /\ loc[p].added = "ErrOrgUserAlreadyAdded"

\* C12: no step leaves two memberships for one (user, org) pair in the store.
\* An AddOrgInvite whose AddOrgUser the store answers with already-added
\* answers 412 and leaves the memberships, the roles included, as they were.
\* A CompleteInvite whose AddOrgUser the store answers with already-added
\* leaves the memberships as they were and goes on to the status update, and
\* that update completes the invite unless the store fails it (500), which it
\* does when the invite is no longer pending.
C12_OneMembershipPerPair ==
  [][/\ OnePerPair(members')
     /\ \A p \in Procs :
          (pc'[p] # pc[p] /\ pc'[p] # "idle") =>
            /\ (req[p].op = "AddOrgInvite" /\ pc[p] = "inviteExisting"
                /\ loc'[p].added = "ErrOrgUserAlreadyAdded") =>
                 /\ pc'[p] = "done"
                 /\ resp'[p].status = 412
                 /\ members' = members
            /\ (pc[p] = "addOrgUser" /\ Tolerated(p)') =>
                 /\ pc'[p] = "setStatus"
                 /\ members' = members
                 /\ \E m \in members : /\ m.user = loc[p].usr.id
                                       /\ m.org = loc[p].invite.org
            /\ (pc[p] = "setStatus" /\ Tolerated(p)) =>
                 LET c == req[p].code
                 IN IF resp'[p].status = 500
                      THEN pc'[p] = "done" /\ invites' = invites
                      ELSE /\ pc'[p] = "setActiveOrg"
                           /\ invites[c].status = TmpUserInvitePending
                           /\ invites'[c].status = TmpUserCompleted
            /\ (pc[p] = "setStatus" /\ invites[req[p].code].status \in Terminal) =>
                 resp'[p].status = 500]_vars

\* a CompleteInvite answered 200 although the new user had been made a
\* member, with another role than the invite's, before its AddOrgUser call
C12_Witness ==
  \E p \in Procs :
    /\ IsDone(p, "CompleteInvite")
    /\ Tolerated(p)
    /\ resp[p].status = 200
    /\ invites[req[p].code].status = TmpUserCompleted
    /\ \E m \in members : /\ m.user = loc[p].usr.id
                          /\ m.org = loc[p].invite.org
                          /\ m.role # loc[p].invite.role

\* an AddOrgInvite for a member answered 412 and the member's role stayed
C12_WitnessAlreadyMember ==
  \E p \in Procs :
    /\ IsDone(p, "AddOrgInvite")
    /\ loc[p].added = "ErrOrgUserAlreadyAdded"
    /\ resp[p].status = 412
    /\ \E m \in members : /\ m.user = loc[p].usr.id
                          /\ m.org = req[p].org
                          /\ m.role # req[p].role

\* C13: a GetPendingOrgInvites that answers 200 returns exactly the invites
\* that are pending and belong to the caller's org at the time of the call,
\* so no completed or revoked invite and no invite of another org; whether
\* it answers 200 or, on a store failure, 500, its step changes nothing in
\* the stores.
C13_ListsPendingOfOrgOnly ==
  [][\A p \in Procs :
       (pc[p] = "idle" /\ req'[p].op = "GetPendingOrgInvites") =>
         /\ pc'[p] = "done"
         /\ req'[p].org = Caller(p).org
         /\ resp'[p].status \in {200, 500}
         /\ resp'[p].status = 200 =>
              loc'[p].list =
                {c \in Codes : /\ invites[c] # NoInvite
                               /\ invites[c].status = TmpUserInvitePending
                               /\ invites[c].org = Caller(p).org}
         /\ resp'[p].status = 500 => loc'[p].list = {}
         /\ UNCHANGED storeVars]_vars

\* the list has a pending invite of the caller's org while the store also
\* holds an invite, pending or not, that the list leaves out
C13_Witness ==
  \E p \in Procs :
    /\ IsDone(p, "GetPendingOrgInvites")
    /\ resp[p].status = 200
    /\ \E c \in loc[p].list, d \in Codes \ loc[p].list : invites[d] # NoInvite

\* the caller's org has a completed invite and the list is empty
C13_WitnessCompletedLeftOut ==
  \E p \in Procs :
    /\ IsDone(p, "GetPendingOrgInvites")
    /\ resp[p].status = 200
    /\ loc[p].list = {}
    /\ \E c \in Codes : /\ invites[c].status = TmpUserCompleted
                        /\ invites[c].org = req[p].org

\* C14: an invite record enters the store only in the CreateTempUser step of
\* an AddOrgInvite whose GetByLogin found no user for the login/email, and
\* only while the login form is not disabled; the record is pending, carries
\* the caller's org, the requested role, the requested login/email and the
\* caller as inviter, and its email-sent mark is not set.  An AddOrgInvite
\* whose GetByLogin found no user while the login form is disabled answers
\* 400 in its first step and changes nothing in the stores.
C14_InviteOnlyForUnknownLogin ==
  [][/\ \A c \in Codes :
          (invites[c] = NoInvite /\ invites'[c] # NoInvite) =>
            \E p \in Procs :
              /\ req[p].op = "AddOrgInvite"
              /\ pc[p] = "createTempUser"
              /\ loc[p].lookup = "notfound"
              /\ loc[p].usr = NoUser
              /\ ~disableLoginForm
              /\ req'[p].code = c
              /\ invites'[c].status = TmpUserInvitePending
              /\ invites'[c].org = Caller(p).org
              /\ invites'[c].role = req[p].role
              /\ invites'[c].email = req[p].loe
              /\ invites'[c].by = Caller(p).userId
              /\ ~invites'[c].sent
     /\ \A p \in Procs :
          (/\ pc[p] = "idle"
           /\ req'[p].op = "AddOrgInvite"
           /\ loc'[p].lookup = "notfound"
           /\ disableLoginForm)
          => /\ pc'[p] = "done"
             /\ resp'[p].status = 400
             /\ UNCHANGED storeVars]_vars

\* an invite was created for a login no user has, while another user exists
C14_Witness ==
  \E p \in Procs :
    /\ IsDone(p, "AddOrgInvite")
    /\ resp[p].status = 200
    /\ loc[p].lookup = "notfound"
    /\ req[p].code \in Codes
    /\ invites[req[p].code].status = TmpUserInvitePending
    /\ invites[req[p].code].org = req[p].org
    /\ invites[req[p].code].role = req[p].role
    /\ invites[req[p].code].by = req[p].userId
    /\ users # {}
    /\ ~disableLoginForm

\* the login form is disabled: 400 and no invite in the store
C14_WitnessLoginDisabled ==
  \E p \in Procs :
    /\ IsDone(p, "AddOrgInvite")
    /\ loc[p].lookup = "notfound"
    /\ disableLoginForm
    /\ resp[p].status = 400
    /\ IsValid(req[p].role)
    /\ \A c \in Codes : invites[c] = NoInvite

\* the invitation email of the invite with code c is out
InviteMailed(c) ==
  [to |-> invites[c].email, template |-> "new_user_invite", code |-> c] \in emails

\* C15: an invite carries the email-sent mark only if its invitation email is
\* out; the mark is set only by the last step of the AddOrgInvite that created
\* the invite, after its send step succeeded, and setting it changes nothing
\* else in the record, the status included.  When the send step fails the
\* request answers 412 if the mail service reports SMTP disabled and 500
\* otherwise, and the step changes nothing in the stores: the record the
\* request created stays there with the mark not set.
C15_EmailSentOnlyAfterMail ==
  [][/\ \A c \in Codes :
          /\ invites'[c].sent => InviteMailed(c)'
          /\ invites'[c].sent # invites[c].sent =>
               /\ invites[c] # NoInvite
               /\ invites' = [invites EXCEPT ![c].sent = TRUE]
               /\ \E p \in Procs : /\ req[p].op = "AddOrgInvite"
                                   /\ pc[p] = "emailSent"
                                   /\ req[p].code = c
                                   /\ loc[p].mail = "nil"
                                   /\ resp'[p].status = 200
     /\ \A p \in Procs :
          (pc[p] = "mailInvite" /\ pc'[p] # pc[p] /\ loc'[p].mail # "nil") =>
            LET c == req[p].code
            IN /\ pc'[p] = "done"
               /\ resp'[p].status =
                    IF loc'[p].mail = "ErrSmtpNotEnabled" THEN 412 ELSE 500
               /\ UNCHANGED storeVars
               /\ invites[c] # NoInvite
               /\ invites[c].email = req[p].loe
               /\ invites[c].by = req[p].userId
               /\ ~invites[c].sent]_vars

\* SMTP is disabled: 412, and the invite is in the store, pending, not marked
C15_Witness ==
  \E p \in Procs :
    /\ IsDone(p, "AddOrgInvite")
    /\ loc[p].mail = "ErrSmtpNotEnabled"
    /\ resp[p].status = 412
    /\ invites[req[p].code].status = TmpUserInvitePending
    /\ ~invites[req[p].code].sent
    /\ ~InviteMailed(req[p].code)

\* the mark was set on an invite that had been revoked in the meantime
C15_WitnessMarkKeepsStatus ==
  \E p \in Procs :
    /\ IsDone(p, "AddOrgInvite")
    /\ resp[p].status = 200
    /\ loc[p].mail = "nil"
    /\ invites[req[p].code].sent
    /\ invites[req[p].code].status = TmpUserRevoked

\* C16: once a RevokeInvite has answered 200 for a code, which is when the
\* invite becomes revoked, the invite stays revoked, no step adds an org
\* membership through that code any more, and no CompleteInvite has answered
\* or will answer 200 for it.
C16_RevokedCodeJoinsNobody ==
  [][\A c \in Codes :
       invites[c].status = TmpUserRevoked =>
         /\ invites'[c].status = TmpUserRevoked
         /\ joinedVia'[c] = joinedVia[c]
         /\ ok200'[c] = 0]_vars

\* what a CompleteInvite that answers 200 in this step has done, but for the
\* role of the membership
AppliedAt200(p) ==
  LET u == loc'[p].usr
      inv == loc'[p].invite
      c == req'[p].code
  IN /\ pc[p] = "login"
     /\ loc'[p].steps = CompleteOrder
     /\ loc'[p].lookup = "found"
     /\ loc'[p].before.status = TmpUserInvitePending
     /\ inv = loc'[p].before
     /\ u \in users'
     /\ u.id \in createdVia'[c]
     /\ u.email = req'[p].email /\ u.login = req'[p].login
     /\ u.id \in events'
     /\ loc'[p].added \in {"nil", "ErrOrgUserAlreadyAdded"}
     /\ \E m \in members' : m.user = u.id /\ m.org = inv.org
     /\ invites'[c].status = TmpUserCompleted
     /\ activeOrg'[u.id] = inv.org
     /\ u.id \in sessions'

\* a CompleteInvite that ends in its first step, before user creation,
\* answers an error that fits what the lookup found and changes no store
EarlyErrorWritesNothing(p) ==
  pc[p] = "idle" =>
    /\ resp'[p].status \in {400, 404, 412, 500}
    /\ resp'[p].status = 400 <=> req'[p].bad
    /\ resp'[p].status = 404 <=> loc'[p].lookup = "notfound"
    /\ resp'[p].status = 412 <=>
         (loc'[p].lookup = "found" /\ loc'[p].before.status \in Terminal)
    /\ loc'[p].usr = NoUser
    /\ UNCHANGED storeVars

\* C17 as stated: a CompleteInvite answers 200 only if in that request the
\* invite was found pending, a user was created, the membership (new user,
\* invite's org, invite's role) is in the store, the invite is completed, the
\* invite's org is the user's active org and the session exists; an error in
\* the first step, before user creation, changes no store.
C17_OkMeansInviteRole ==
  [][\A p \in Procs :
       (req'[p].op = "CompleteInvite" /\ pc[p] # "done" /\ pc'[p] = "done") =>
         /\ resp'[p].status = 200 =>
              /\ AppliedAt200(p)
              /\ [user |-> loc'[p].usr.id, org |-> loc'[p].invite.org,
                  role |-> loc'[p].invite.role] \in members'
         /\ EarlyErrorWritesNothing(p)]_vars

\* C17, amended: as stated, except that the membership of the new user in the
\* invite's org carries the invite's role only if this request's AddOrgUser
\* added it; if the store answered already-added, the membership is the one
\* found there, whatever its role.
C17_OkMeansApplied ==
  [][\A p \in Procs :
       (req'[p].op = "CompleteInvite" /\ pc[p] # "done" /\ pc'[p] = "done") =>
         /\ resp'[p].status = 200 =>
              /\ AppliedAt200(p)
              /\ loc'[p].added = "nil" =>
                   [user |-> loc'[p].usr.id, org |-> loc'[p].invite.org,
                    role |-> loc'[p].invite.role] \in members'
         /\ EarlyErrorWritesNothing(p)]_vars

\* a CompleteInvite answered 200 and its own AddOrgUser added the membership
C17_Witness ==
  \E p \in Procs :
    /\ IsDone(p, "CompleteInvite")
    /\ resp[p].status = 200
    /\ loc[p].added = "nil"
    /\ [user |-> loc[p].usr.id, org |-> loc[p].invite.org,
        role |-> loc[p].invite.role] \in members
    /\ activeOrg[loc[p].usr.id] = loc[p].invite.org
    /\ loc[p].usr.id \in sessions

\* a CompleteInvite answered 412 for a revoked invite, nothing was written
C17_WitnessEarlyError ==
  \E p \in Procs :
    /\ IsDone(p, "CompleteInvite")
    /\ resp[p].status = 412
    /\ loc[p].before.status = TmpUserRevoked
    /\ users = {} /\ members = {}

\* a CompleteInvite answered 200 for an Editor invite and the new user is a
\* Viewer of the invite's org: an AddOrgInvite added the user first
C17_WitnessOtherRole ==
  \E p \in Procs :
    /\ IsDone(p, "CompleteInvite")
    /\ resp[p].status = 200
    /\ loc[p].added = "ErrOrgUserAlreadyAdded"
    /\ loc[p].invite.role = ROLE_EDITOR
    /\ [user |-> loc[p].usr.id, org |-> loc[p].invite.org,
        role |-> ROLE_VIEWER] \in members
    /\ activeOrg[loc[p].usr.id] = loc[p].invite.org

\* the caller of slot p may hand out the role: it is a valid role that the
\* caller's org role includes, or the caller is a Grafana admin
MayGrant(p, role) ==
  /\ IsValid(role)
  /\ Includes(Caller(p).orgRole, role) \/ Caller(p).admin

\* C18: every invite record that enters the store is created by an
\* AddOrgInvite, in the caller's org and with the requested role, which the
\* caller may hand out; every membership that enters the store is either
\* added by an AddOrgInvite, in the caller's org and with the requested role,
\* which the caller may hand out, or added by a CompleteInvite for the user
\* it created, with exactly the org and the role of the stored invite of its
\* code.  The role and the org of a stored invite never change.
C18_NoPrivilegeEscalation ==
  [][/\ \A c \in Codes :
          IF invites[c] = NoInvite
            THEN invites'[c] # NoInvite =>
                   \E p \in Procs :
                     /\ req[p].op = "AddOrgInvite"
                     /\ pc'[p] # pc[p]
                     /\ invites'[c].org = Caller(p).org
                     /\ invites'[c].role = req[p].role
                     /\ MayGrant(p, invites'[c].role)
            ELSE /\ invites'[c].role = invites[c].role
                 /\ invites'[c].org = invites[c].org
     /\ \A m \in members' \ members :
          \E p \in Procs :
            /\ pc'[p] # pc[p]
            /\ m.user = loc[p].usr.id
            /\ loc[p].usr \in users
            /\ \/ /\ req[p].op = "AddOrgInvite"
                  /\ m.org = Caller(p).org
                  /\ m.role = req[p].role
                  /\ MayGrant(p, m.role)
               \/ /\ req[p].op = "CompleteInvite"
                  /\ m.org = invites[req[p].code].org
                  /\ m.role = invites[req[p].code].role
                  /\ m.user \in createdVia[req[p].code]]_vars

\* a Grafana admin whose org role is Viewer created an Admin invite, and a
\* membership that a CompleteInvite added carries its invite's org and role
C18_Witness ==
  /\ \E c \in Codes : /\ invites[c].role = ROLE_ADMIN
                      /\ invites[c].org = 2
                      /\ invites[c].by = Caller(2).userId
  /\ \E c \in Codes, m \in members :
       /\ m.user \in joinedVia[c]
       /\ m.org = invites[c].org
       /\ m.role = invites[c].role

\* an Editor made an existing user an Editor of the org
C18_WitnessExistingUser ==
  \E p \in Procs, m \in members :
    /\ IsDone(p, "AddOrgInvite")
    /\ resp[p].status = 200
    /\ loc[p].added = "nil"
    /\ m.user = loc[p].usr.id
    /\ m.role = req[p].orgRole
    /\ ~req[p].admin
====
